---- MODULE Spec2Model ----
(***************************************************************************)
(* Hit4Power player-development tool (FastAPI + SQLAlchemy).               *)
(*                                                                         *)
(* Part A: the start-up schema reconciler, app/main.py _ensure_schema,     *)
(*         run by one or two server processes on one database.             *)
(* Part B: the metric query engine, _latest_metrics_query and              *)
(*         _chart_series, over the rows of the metrics table, and the      *)
(*         roster of instructor_home.                                      *)
(* Part C: _day, the date label of a stored recorded_at.                   *)
(* Part D: the write handlers create_player, add_metric, add_note,         *)
(*         assign_drill and toggle_favorite, for two clients.              *)
(* Part E: the sessions: login_player, login_instructor, logout.           *)
(***************************************************************************)
EXTENDS Integers, Sequences, FiniteSets, TLC

VARIABLES
    \* ---- the database (shared by every process) ----
    dialect,        \* engine.dialect.name
    columns,        \* table name -> set of column names the table has
    favTable,       \* whether table "favorites" exists
    metrics,        \* rows of table metrics, a sequence of records
    \* ---- one entry per server process ----
    mode,           \* "sequential": process 2 starts after process 1's import
                    \* "racing": both processes import at the same time
    phase,          \* "idle" | "import" | "serving" | "crashed"
    pc,             \* index into Program of the statement to run next
    loc,            \* _ensure_schema's local column-set variables
    favSeen,        \* result of _has_table("favorites") in this run
    info_cache,     \* insp's reflection cache: table -> {} or {column set}
    logged,         \* tables for which "cannot inspect" was printed
    blind,          \* local variables holding the set() of a failed cols()
    ddl,            \* DDL statements this process issued: <<table, column>>
    runs,           \* how many times this process entered _ensure_schema
    colsAtFinish,   \* the schema as _ensure_schema left it, {} before
    served,         \* requests this process has handled
    faultsLeft,     \* introspection failures the environment may still cause
    \* ---- the query engine's last answer ----
    q_op,           \* the query answered: "none" | "latest" | "chart" | "roster"
    q_player,       \* the player_id asked for
    q_probe,        \* what _has_column("metrics","recorded_at") answered
    q_latest,       \* rows returned by the latest-metrics query, in order
    q_chart,        \* [labels, ev, la, sr] returned by _chart_series
    q_roster,       \* [counts, order] computed by instructor_home
    \* ---- _day applied to one stored recorded_at ----
    day_in,         \* the stored representation handed to _day
    day_out,        \* {} before the call, {label} after it
    \* ---- the tables the handlers write, besides metrics ----
    players,        \* rows of table players: [id, login_code]
    instructors,    \* rows of table instructors: [id, login_code]
    notes,          \* rows of table notes: [player_id, instructor_id]
    drill_assignments,  \* rows: [player_id, instructor_id]
    favorites,      \* rows of table favorites: <<instructor_id, player_id>>
    codeUnique,     \* players.login_code carries its UNIQUE constraint
    fkEnforced,     \* the database enforces FOREIGN KEY constraints
    env_code,       \* os.getenv("INSTRUCTOR_DEFAULT_CODE", "")
    \* ---- one entry per client (browser) ----
    session,        \* request.session: [player_id, instructor_id], nullable
    inflight,       \* the client's request in flight, between two steps
    resp,           \* the response to the client's last request
    sent            \* requests the client has made

schemaVars == <<dialect, columns, favTable, mode, phase, pc, loc, favSeen,
                info_cache, logged, blind, ddl, runs, colsAtFinish, served,
                faultsLeft>>
queryVars  == <<q_op, q_player, q_probe, q_latest, q_chart, q_roster>>
dayVars    == <<day_in, day_out>>
tableVars  == <<players, instructors, notes, drill_assignments, favorites,
                codeUnique, fkEnforced, env_code>>
clientVars == <<session, inflight, resp, sent>>
appVars    == <<dayVars, tableVars, clientVars>>
vars       == <<schemaVars, metrics, queryVars, appVars>>

\* ------------------------------------------------------------------------
\* Bounds of the model
\* ------------------------------------------------------------------------
MaxMissing  == 1    \* columns missing from the starting schema
MaxLegacy   == 2    \* rows in metrics when the reconciler starts
MaxFaults   == 1    \* introspection failures per behaviour
MaxServed   == 1    \* requests handled per process
MaxTime     == 3    \* timestamps are 1 .. MaxTime, in time order
SlotsPerDay == 2    \* consecutive timestamps that fall on one calendar day
MaxRows     == 2    \* rows in metrics when the queries run
MaxRequests == 1    \* requests a client makes

\* A nullable SQL value: NULL is the empty set, a value v is {v}.
NULL == {}

Some(v) == {v}

\* COALESCE(a, b): the first argument that is not NULL.
Coalesce(a, b) == IF a # NULL THEN a ELSE b

Procs == {1, 2}

Tables == {"instructors", "players", "metrics", "notes", "drill_assignments"}

\* The columns _ensure_schema adds when missing, in the order it tests them.
ExpectedCols ==
    [instructors |-> <<"login_code", "created_at", "updated_at">>,
     players |-> <<"login_code", "age", "phone", "image_path",
                   "created_at", "updated_at">>,
     metrics |-> <<"metric", "value", "unit", "recorded_at", "source",
                   "entered_by_instructor_id", "note">>,
     notes |-> <<"kind", "shared", "created_at", "updated_at">>,
     drill_assignments |-> <<"status", "note", "due_date",
                             "created_at", "updated_at">>]

Range(s) == {s[i] : i \in 1 .. Len(s)}

ExpectedSet(t) == Range(ExpectedCols[t])

\* Every column a table of a deployed database may have: the expected ones
\* and, for metrics, the legacy created_at the backfill reads.
KnownCols(t) == ExpectedSet(t) \cup (IF t = "metrics" THEN {"created_at"} ELSE {})

\* ------------------------------------------------------------------------
\* Part A.  _ensure_schema as a straight-line program of database statements
\* ------------------------------------------------------------------------
Stmt(o, t, c, v) == [op |-> o, table |-> t, col |-> c, var |-> v]

\* if "<col>" not in <var>: _add(table, "ALTER TABLE ... ADD COLUMN <col>"),
\* once per expected column of the table.
Adds(t, v) ==
    [i \in 1 .. Len(ExpectedCols[t]) |-> Stmt("add", t, ExpectedCols[t][i], v)]

Program ==
    << Stmt("cols", "instructors", "", "instr_cols"),
       Stmt("cols", "players", "", "player_cols"),
       Stmt("cols", "metrics", "", "metric_cols"),
       Stmt("cols", "notes", "", "notes_cols"),
       Stmt("cols", "drill_assignments", "", "drills_cols") >>
    \o Adds("instructors", "instr_cols")
    \o Adds("players", "player_cols")
    \o Adds("metrics", "metric_cols")
    \o << Stmt("cols", "metrics", "", "metric_cols_after"),
          Stmt("backfill", "metrics", "", "metric_cols_after") >>
    \o Adds("notes", "notes_cols")
    \o << Stmt("update", "notes", "", ""),
          Stmt("cols", "drill_assignments", "", "drills_cols") >>
    \o Adds("drill_assignments", "drills_cols")
    \o << Stmt("update", "drill_assignments", "", ""),
          Stmt("has_table", "favorites", "", ""),
          Stmt("create", "favorites", "", ""),
          Stmt("update", "final", "", "") >>

LocalVars == {"instr_cols", "player_cols", "metric_cols", "notes_cols",
              "drills_cols", "metric_cols_after"}

\* The columns each UPDATE ... SET c = COALESCE(c, ...) transaction names.
UpdateNeeds(t) ==
    CASE t = "notes" ->
            {<<"notes", "shared">>, <<"notes", "created_at">>,
             <<"notes", "updated_at">>}
      [] t = "drill_assignments" ->
            {<<"drill_assignments", "created_at">>,
             <<"drill_assignments", "updated_at">>,
             <<"drill_assignments", "status">>}
      [] OTHER ->
            {<<"instructors", "created_at">>, <<"instructors", "updated_at">>,
             <<"players", "created_at">>, <<"players", "updated_at">>}

\* Mutation of Missing: the patch is applied without consulting the snapshot.
MissingUnguarded(snapshot, col) == TRUE

\* The guard of one patch: if "<col>" not in <snapshot>.
Missing(snapshot, col) == col \notin snapshot

\* The statement at or after k that the run executes next: an "add" whose
\* guard finds the column in the snapshot, a backfill whose snapshot lacks
\* recorded_at and a CREATE TABLE after has_table answered True touch
\* nothing and are passed over.
RECURSIVE Settle(_, _, _)
Settle(l, fav, k) ==
    IF k > Len(Program) THEN k
    ELSE LET s == Program[k] IN
         IF \/ s.op = "add" /\ ~Missing(l[s.var], s.col)
            \/ s.op = "backfill" /\ "recorded_at" \notin l[s.var]
            \/ s.op = "create" /\ fav
         THEN Settle(l, fav, k + 1)
         ELSE k

Running(p, o) ==
    /\ phase[p] = "import"
    /\ pc[p] <= Len(Program)
    /\ Program[pc[p]].op = o

\* What the database schema is: the column sets and the favorites table.
SchemaNow == [cols |-> columns, favorites |-> favTable]

\* An uncaught exception leaves _ensure_schema, and with it the import of
\* app.main: the process never serves.
Raise(p) ==
    /\ phase' = [phase EXCEPT ![p] = "crashed"]
    /\ UNCHANGED <<pc, loc, favSeen, info_cache, logged, blind, runs,
                   colsAtFinish, served, faultsLeft>>

Goto(p, l, fav, k) ==
    /\ pc' = [pc EXCEPT ![p] = Settle(l, fav, k)]
    /\ loc' = [loc EXCEPT ![p] = l]
    /\ favSeen' = [favSeen EXCEPT ![p] = fav]
    /\ UNCHANGED <<phase, runs, colsAtFinish, served>>

\* Process 2 is a later start of the service on the same database when the
\* mode is sequential, a simultaneous one when it is racing.
MayStart(p) ==
    \/ p = 1
    \/ mode = "racing"
    \/ phase[1] \in {"serving", "crashed"}

\* The service starts: app.main is imported, Base.metadata.create_all has
\* created any missing table, and _ensure_schema() is entered with a new
\* Inspector whose cache is empty.
StartProcess(p) ==
    /\ phase[p] = "idle"
    /\ MayStart(p)
    /\ phase' = [phase EXCEPT ![p] = "import"]
    /\ runs' = [runs EXCEPT ![p] = @ + 1]
    /\ pc' = [pc EXCEPT ![p] = 1]
    /\ UNCHANGED <<dialect, columns, favTable, mode, loc, favSeen, info_cache,
                   logged, blind, ddl, colsAtFinish, served, faultsLeft,
                   metrics, queryVars, appVars>>

\* cols(table): insp.get_columns(table) through the Inspector of this run.
\* The Inspector keeps what get_columns returned for a table in its
\* info_cache and answers a later call for the same table from it; a call
\* that raises caches nothing, prints and yields the empty set.
Inspect(p) ==
    /\ Running(p, "cols")
    /\ LET s == Program[pc[p]]
           hit == info_cache[p][s.table] # {}
       IN
       \/ /\ LET got == IF hit THEN CHOOSE c \in info_cache[p][s.table] : TRUE
                               ELSE columns[s.table]
             IN /\ info_cache' = [info_cache EXCEPT ![p][s.table] = {got}]
                /\ Goto(p, [loc[p] EXCEPT ![s.var] = got], favSeen[p], pc[p] + 1)
          /\ blind' = [blind EXCEPT ![p] = @ \ {s.var}]
          /\ UNCHANGED <<logged, faultsLeft>>
       \/ /\ ~hit
          /\ faultsLeft > 0
          /\ faultsLeft' = faultsLeft - 1
          /\ logged' = [logged EXCEPT ![p] = @ \cup {s.table}]
          /\ blind' = [blind EXCEPT ![p] = @ \cup {s.var}]
          /\ Goto(p, [loc[p] EXCEPT ![s.var] = {}], favSeen[p], pc[p] + 1)
          /\ UNCHANGED info_cache
    /\ UNCHANGED <<dialect, columns, favTable, mode, ddl, metrics, queryVars, appVars>>

\* _add(table, ddl) for a column the snapshot lacks.  PostgreSQL gets
\* ADD COLUMN IF NOT EXISTS; any other dialect gets the plain ALTER, which
\* the database rejects ("duplicate column name") when the column exists.
AddColumn(p) ==
    /\ Running(p, "add")
    /\ LET s == Program[pc[p]] IN
       /\ ddl' = [ddl EXCEPT ![p] = @ \cup {<<s.table, s.col>>}]
       /\ IF dialect # "postgresql" /\ s.col \in columns[s.table]
          THEN Raise(p) /\ UNCHANGED columns
          ELSE /\ columns' = [columns EXCEPT ![s.table] = @ \cup {s.col}]
               /\ Goto(p, loc[p], favSeen[p], pc[p] + 1)
               /\ UNCHANGED <<info_cache, logged, blind, faultsLeft>>
    /\ UNCHANGED <<dialect, favTable, mode, metrics, queryVars, appVars>>
\* CURRENT_TIMESTAMP: later than every stored timestamp.
Now == MaxTime + 1

\* UPDATE metrics SET recorded_at = COALESCE(recorded_at, created_at,
\* CURRENT_TIMESTAMP), or without created_at when the snapshot lacks it.
Backfilled(row, withCreated) ==
    [row EXCEPT !.recorded_at =
        Coalesce(@, IF withCreated THEN Coalesce(row.created_at, Some(Now))
                                   ELSE Some(Now))]

\* The backfill of metrics.recorded_at, guarded by the second snapshot of
\* the metrics columns (metric_cols_after).
BackfillMetrics(p) ==
    /\ Running(p, "backfill")
    /\ LET after == loc[p]["metric_cols_after"]
           withCreated == "created_at" \in after
           needs == {"recorded_at"} \cup (IF withCreated THEN {"created_at"} ELSE {})
       IN IF "recorded_at" \notin after
          THEN Goto(p, loc[p], favSeen[p], pc[p] + 1) /\ UNCHANGED metrics
                /\ UNCHANGED <<info_cache, logged, blind, faultsLeft>>
          ELSE IF ~(needs \subseteq columns["metrics"])
          THEN Raise(p) /\ UNCHANGED metrics
          ELSE /\ metrics' = [i \in DOMAIN metrics |->
                                 Backfilled(metrics[i], withCreated)]
               /\ Goto(p, loc[p], favSeen[p], pc[p] + 1)
               /\ UNCHANGED <<info_cache, logged, blind, faultsLeft>>
    /\ UNCHANGED <<dialect, columns, favTable, mode, ddl, queryVars, appVars>>

\* with engine.begin(): UPDATE ... SET c = COALESCE(c, default) for notes,
\* for drill_assignments and, last, for instructors and players.  The rows
\* of these tables are not part of the state; the statement fails when a
\* column it names does not exist.
UpdateDefaults(p) ==
    /\ Running(p, "update")
    /\ IF \A tc \in UpdateNeeds(Program[pc[p]].table) : tc[2] \in columns[tc[1]]
       THEN /\ Goto(p, loc[p], favSeen[p], pc[p] + 1)
            /\ UNCHANGED <<info_cache, logged, blind, faultsLeft>>
       ELSE Raise(p)
    /\ UNCHANGED <<dialect, columns, favTable, mode, ddl, metrics, queryVars, appVars>>

\* _has_table("favorites"): a fresh Inspector; False when inspection raises.
ProbeFavorites(p) ==
    /\ Running(p, "has_table")
    /\ \/ /\ Goto(p, loc[p], favTable, pc[p] + 1)
          /\ UNCHANGED <<logged, faultsLeft>>
       \/ /\ faultsLeft > 0
          /\ faultsLeft' = faultsLeft - 1
          /\ logged' = [logged EXCEPT ![p] = @ \cup {"favorites"}]
          /\ Goto(p, loc[p], FALSE, pc[p] + 1)
    /\ UNCHANGED <<dialect, columns, favTable, mode, info_cache, blind, ddl,
                   metrics, queryVars, appVars>>

\* CREATE TABLE favorites (...), plain in every dialect: rejected when the
\* table exists.
CreateFavorites(p) ==
    /\ Running(p, "create")
    /\ ddl' = [ddl EXCEPT ![p] = @ \cup {<<"favorites", "">>}]
    /\ IF favTable
       THEN Raise(p) /\ UNCHANGED favTable
       ELSE /\ favTable' = TRUE
            /\ Goto(p, loc[p], favSeen[p], pc[p] + 1)
            /\ UNCHANGED <<info_cache, logged, blind, faultsLeft>>
    /\ UNCHANGED <<dialect, columns, mode, metrics, queryVars, appVars>>

\* _ensure_schema() returns, the rest of app.main is imported and the
\* server begins to accept requests.
FinishImport(p) ==
    /\ phase[p] = "import"
    /\ pc[p] > Len(Program)
    /\ phase' = [phase EXCEPT ![p] = "serving"]
    /\ colsAtFinish' = [colsAtFinish EXCEPT ![p] = {SchemaNow}]
    /\ UNCHANGED <<dialect, columns, favTable, mode, pc, loc, favSeen,
                   info_cache, logged, blind, ddl, runs, served, faultsLeft,
                   metrics, queryVars, appVars>>

\* Mutation of HandleRequest: the handler patches the schema again.
HandleRequestReentering(p) ==
    /\ phase[p] = "serving"
    /\ served[p] < MaxServed
    /\ served' = [served EXCEPT ![p] = @ + 1]
    /\ phase' = [phase EXCEPT ![p] = "import"]
    /\ runs' = [runs EXCEPT ![p] = @ + 1]
    /\ pc' = [pc EXCEPT ![p] = 1]
    /\ UNCHANGED <<dialect, columns, favTable, mode, loc, favSeen,
                   info_cache, logged, blind, ddl, colsAtFinish,
                   faultsLeft, metrics, queryVars, appVars>>

\* A route handler runs.  The handlers read and write rows and probe the
\* schema (_has_column); none of them calls _ensure_schema or issues DDL.
HandleRequest(p) ==
    /\ phase[p] = "serving"
    /\ served[p] < MaxServed
    /\ served' = [served EXCEPT ![p] = @ + 1]
    /\ UNCHANGED <<dialect, columns, favTable, mode, phase, pc, loc, favSeen,
                   info_cache, logged, blind, ddl, runs, colsAtFinish,
                   faultsLeft, metrics, queryVars, appVars>>

\* ------------------------------------------------------------------------
\* Starting states of the reconciler
\* ------------------------------------------------------------------------
AllColumns == {tc \in Tables \X UNION {KnownCols(t) : t \in Tables} :
                   tc[2] \in KnownCols(tc[1])}

\* The subsets of S of at most k elements.
RECURSIVE UpTo(_, _)
UpTo(S, k) ==
    IF k = 0 THEN {{}}
    ELSE LET smaller == UpTo(S, k - 1)
         IN smaller \cup {g \cup {x} : g \in smaller, x \in S}

\* A schema some earlier revision of the service left behind: every table
\* exists, up to MaxMissing known columns are absent.
Shapes ==
    {[t \in Tables |-> {c \in KnownCols(t) : <<t, c>> \notin gone}] :
        gone \in UpTo(AllColumns, MaxMissing)}

\* A row of metrics written by an earlier revision: a column the table
\* lacks reads NULL.
LegacyRows(shape) ==
    LET has(c) == c \in shape["metrics"]
        opt(c, v) == IF has(c) THEN {NULL, Some(v)} ELSE {NULL}
        req(c, v) == IF has(c) THEN {Some(v)} ELSE {NULL}
    IN [id : {0}, player_id : {1},
        metric : req("metric", "exit_velocity"), value : req("value", 90),
        recorded_at : opt("recorded_at", 1), created_at : opt("created_at", 2)]

WithIds(rows) == [i \in DOMAIN rows |-> [rows[i] EXCEPT !.id = i]]

\* ([], [], [], [])
NoChart == [labels |-> <<>>, ev |-> <<>>, la |-> <<>>, sr |-> <<>>]

\* No roster computed: no session counts, no player listed.
NoRoster == [counts |-> <<>>, order |-> <<>>]

QueryIdle ==
    /\ q_op = "none"
    /\ q_player = 0
    /\ q_probe = FALSE
    /\ q_latest = <<>>
    /\ q_chart = NoChart
    /\ q_roster = NoRoster

\* No stored value has been handed to _day.
DayIdle ==
    /\ day_in = [kind |-> "None", ymd |-> <<>>, text |-> <<>>]
    /\ day_out = {}

Clients == {1, 2}

\* No request in flight.
NoReq == [op |-> "none", pid |-> 0, iid |-> 0, hit |-> FALSE, value |-> 0]

\* No response yet.
NoResp == [op |-> "none", pid |-> 0, iid |-> 0, outcome |-> "none", value |-> 0]

\* An empty session cookie.
Anonymous == [player_id |-> {}, instructor_id |-> {}]

\* Empty tables and clients that have not made a request.
TablesIdle ==
    /\ players = <<>>
    /\ instructors = <<>>
    /\ notes = <<>>
    /\ drill_assignments = <<>>
    /\ favorites = <<>>
    /\ codeUnique = TRUE
    /\ fkEnforced = FALSE
    /\ env_code = <<>>

ClientsIdle ==
    /\ session = [c \in Clients |-> Anonymous]
    /\ inflight = [c \in Clients |-> NoReq]
    /\ resp = [c \in Clients |-> NoResp]
    /\ sent = [c \in Clients |-> 0]

\* Nothing outside the reconciler and the query engine has happened.
AppIdle ==
    /\ DayIdle
    /\ TablesIdle
    /\ ClientsIdle

InitProcs ==
    /\ phase = [p \in Procs |-> "idle"]
    /\ pc = [p \in Procs |-> 1]
    /\ loc = [p \in Procs |-> [v \in LocalVars |-> {}]]
    /\ favSeen = [p \in Procs |-> FALSE]
    /\ info_cache = [p \in Procs |-> [t \in Tables |-> {}]]
    /\ logged = [p \in Procs |-> {}]
    /\ blind = [p \in Procs |-> {}]
    /\ ddl = [p \in Procs |-> {}]
    /\ runs = [p \in Procs |-> 0]
    /\ colsAtFinish = [p \in Procs |-> {}]
    /\ served = [p \in Procs |-> 0]

\* Two starts of the service one after the other, on a database with no
\* metric rows yet and an introspection that works.
InitSchema ==
    /\ dialect \in {"sqlite", "postgresql"}
    /\ columns \in Shapes
    /\ favTable \in BOOLEAN
    /\ metrics = <<>>
    /\ mode = "sequential"
    /\ faultsLeft = 0
    /\ InitProcs
    /\ QueryIdle
    /\ AppIdle

\* The same on a database that holds legacy metric rows and whose
\* introspection may fail up to MaxFaults times.
InitLegacy ==
    /\ dialect \in {"sqlite", "postgresql"}
    /\ columns \in Shapes
    /\ favTable \in BOOLEAN
    /\ \E n \in 0 .. MaxLegacy :
          \E rows \in [1 .. n -> LegacyRows(columns)] : metrics = WithIds(rows)
    /\ mode = "sequential"
    /\ faultsLeft = MaxFaults
    /\ InitProcs
    /\ QueryIdle
    /\ AppIdle

\* Two processes started together on one database.
InitRace ==
    /\ dialect \in {"sqlite", "postgresql"}
    /\ columns \in Shapes
    /\ favTable \in BOOLEAN
    /\ metrics = <<>>
    /\ mode = "racing"
    /\ faultsLeft = 0
    /\ InitProcs
    /\ QueryIdle
    /\ AppIdle

NextSchema ==
    \E p \in Procs :
        \/ StartProcess(p)
        \/ Inspect(p)
        \/ AddColumn(p)
        \/ BackfillMetrics(p)
        \/ UpdateDefaults(p)
        \/ ProbeFavorites(p)
        \/ CreateFavorites(p)
        \/ FinishImport(p)
        \/ HandleRequest(p)

SpecSchema == InitSchema /\ [][NextSchema]_vars

SpecLegacy == InitLegacy /\ [][NextSchema]_vars

SpecRace == InitRace /\ [][NextSchema]_vars
\* ------------------------------------------------------------------------
\* Part A.  Properties of the reconciler
\* ------------------------------------------------------------------------
AtStmt(p, o) == pc[p] <= Len(Program) /\ Program[pc[p]].op = o

\* C1.  Idempotence: for every starting shape, a second run of
\* _ensure_schema directly after a completed first run raises nothing,
\* issues no DDL, and leaves the schema exactly as the first run left it.
C1_Idempotent ==
    phase[1] = "serving" =>
        /\ phase[2] # "crashed"
        /\ ddl[2] = {}
        /\ {SchemaNow} = colsAtFinish[1]
        /\ phase[2] = "serving" => colsAtFinish[2] = colsAtFinish[1]

\* The second run has completed after a first run that had to add a column.
C1_Witness ==
    /\ phase[1] = "serving"
    /\ phase[2] = "serving"
    /\ \E tc \in ddl[1] : tc[1] \in Tables
    /\ runs[2] = 1

\* C2.  Backfill completeness: once a run of _ensure_schema whose
\* introspection never failed has completed, no row of metrics has a NULL
\* recorded_at.
C2_BackfillComplete ==
    \A p \in Procs :
        (phase[p] = "serving" /\ logged[p] = {}) =>
            \A i \in DOMAIN metrics : metrics[i].recorded_at # NULL

\* C3.  When get_columns fails for a table, the run issues no ALTER TABLE
\* guarded by that failed snapshot and does not raise because of it.
C3_SkipsUninspectable ==
    \A p \in Procs :
        ~ /\ phase[p] \in {"import", "crashed"}
          /\ AtStmt(p, "add")
          /\ Program[pc[p]].var \in blind[p]

\* C4.  Two runs racing on one database: no run raises at a column add,
\* and once both have completed every expected column is present.
C4_RaceTolerant ==
    /\ \A p \in Procs : ~(phase[p] = "crashed" /\ AtStmt(p, "add"))
    /\ (\A p \in Procs : phase[p] = "serving") =>
           \A t \in Tables : ExpectedSet(t) \subseteq columns[t]

\* C5.  A process serves requests only after its single run of
\* _ensure_schema has completed, and while it serves it neither re-enters
\* _ensure_schema nor issues a schema change.
C5_ServingState ==
    \A p \in Procs :
        /\ runs[p] <= 1
        /\ served[p] > 0 => colsAtFinish[p] # {}
        /\ phase[p] = "serving" =>
              /\ runs[p] = 1
              /\ pc[p] > Len(Program)
              /\ colsAtFinish[p] # {}

C5_ServingStep ==
    \A p \in Procs :
        phase[p] = "serving" =>
            /\ phase'[p] = "serving"
            /\ runs'[p] = runs[p]
            /\ ddl'[p] = ddl[p]

C5_OnceBeforeServing == [](C5_ServingState) /\ [][C5_ServingStep]_vars

\* A process has handled a request after a run that changed the schema,
\* while the other process failed to start.
C5_Witness ==
    \E p, q \in Procs :
        /\ served[p] > 0
        /\ ddl[p] # {}
        /\ phase[q] = "crashed"
\* ------------------------------------------------------------------------
\* Part B.  The metric query engine
\* ------------------------------------------------------------------------
\* Metric names in ascending (ORDER BY metric ASC) order.
NameOrder == <<"bat_speed", "exit_velocity", "launch_angle", "spin_rate">>

\* The names rows are stored under: lower-case and stripped, as add_metric
\* writes them.
StoredNames == {"bat_speed", "exit_velocity", "launch_angle"}

Rank(name) == CHOOSE i \in 1 .. Len(NameOrder) : NameOrder[i] = name

Players == {1, 2}

\* Player ids a request may name; the last one owns no player row.
AskedPlayers == Players \cup {3}

Val(x) == CHOOSE v \in x : TRUE

Max(S) == CHOOSE m \in S : \A x \in S : x <= m

\* SQL equality of two nullable values: true only when neither is NULL.
SqlEq(a, b) == a # NULL /\ b # NULL /\ a = b

Rows == Range(metrics)

\* Mutation of PlayerRows: the WHERE Metric.player_id == player_id is lost.
PlayerRowsUnfiltered(pid) == Rows

\* WHERE Metric.player_id == player_id
PlayerRows(pid) == {r \in Rows : r.player_id = pid}

\* _has_column("metrics", "recorded_at"): False when inspection raises.
HasColumn(table, col, inspected) == inspected /\ col \in columns[table]

\* The value of column key in row r, as a nullable value.
Col(r, key) == IF key = "id" THEN Some(r.id) ELSE r[key]

\* Mutation of SqlMax: the oldest value of the group is taken.
SqlMin(vals) ==
    LET present == UNION vals IN
    IF present = {} THEN NULL
    ELSE Some(CHOOSE v \in present : \A w \in present : v <= w)

\* max(column) over a group: NULLs are ignored, NULL when nothing is left.
SqlMax(vals) ==
    LET present == UNION vals IN
    IF present = {} THEN NULL ELSE Some(Max(present))

\* The subquery: SELECT metric, max(<key>) ... WHERE player_id = :pid
\* GROUP BY metric, with key recorded_at or id.
GroupLatest(pid, key) ==
    {[metric |-> m,
      latest |-> SqlMax({Col(r, key) : r \in {x \in PlayerRows(pid) : x.metric = m}})] :
        m \in {r.metric : r \in PlayerRows(pid)}}

\* select(Metric).where(player_id = :pid).join(subq, metric = subq.metric
\* AND <key> = subq.latest): the rows the statement selects.
LatestRows(pid, key) ==
    {r \in PlayerRows(pid) :
        \E g \in GroupLatest(pid, key) :
            SqlEq(r.metric, g.metric) /\ SqlEq(Col(r, key), g.latest)}

\* The orders in which ORDER BY may deliver the rows S: every arrangement
\* in which the sort key k[r] never decreases; rows with equal keys come in
\* any order.
Orderings(S, k) ==
    {s \in [1 .. Cardinality(S) -> S] :
        /\ \A i, j \in DOMAIN s : i # j => s[i] # s[j]
        /\ \A i, j \in DOMAIN s : i < j => k[s[i]] <= k[s[j]]}

\* ORDER BY Metric.metric ASC (a NULL name sorts before every name).
ByMetric(S) ==
    [r \in S |-> IF r.metric = NULL THEN 0 ELSE Rank(Val(r.metric))]

\* _latest_metrics_query(player_id), executed: the recorded_at branch when
\* the probe found the column, the max(id) branch otherwise.
LatestMetricsOf(pid, probe) ==
    IF probe THEN LatestRows(pid, "recorded_at") ELSE LatestRows(pid, "id")

\* db.execute(_latest_metrics_query(pid)).scalars().all()
\* Queries only read, so requests are taken one at a time.
LatestMetrics(pid) ==
    /\ q_op = "none"
    /\ \E inspected \in BOOLEAN :
        LET probe == HasColumn("metrics", "recorded_at", inspected)
            found == LatestMetricsOf(pid, probe)
        IN
        \E answer \in Orderings(found, ByMetric(found)) :
            /\ q_op' = "latest"
            /\ q_player' = pid
            /\ q_probe' = probe
            /\ q_latest' = answer
            /\ q_chart' = NoChart
            /\ q_roster' = NoRoster
            /\ UNCHANGED <<schemaVars, metrics, appVars>>

\* The calendar day a timestamp falls on.
DayOf(t) == (t + SlotsPerDay - 1) \div SlotsPerDay

\* _day(v): the ISO date of a datetime; str(None) = "None" for a NULL.
Day(v) ==
    IF v = NULL THEN [kind |-> "None", day |-> 0]
    ELSE [kind |-> "date", day |-> DayOf(Val(v))]

\* ORDER BY Metric.recorded_at ASC: SQLite puts NULLs first, PostgreSQL last.
ByRecordedAt(S) ==
    [r \in S |-> IF r.recorded_at = NULL
                 THEN (IF dialect = "postgresql" THEN MaxTime + 1 ELSE 0)
                 ELSE Val(r.recorded_at)]

\* labels: the days of the rows, each once, in the order of first occurrence.
RECURSIVE Labels(_)
Labels(rows) ==
    IF rows = <<>> THEN <<>>
    ELSE LET front == Labels(SubSeq(rows, 1, Len(rows) - 1))
             d == Day(rows[Len(rows)].recorded_at)
         IN IF d \in Range(front) THEN front ELSE Append(front, d)

\* The names the chart keeps a day -> value map for.
Wanted == {"exit_velocity", "launch_angle", "spin_rate"}

\* r.metric, lower-cased and stripped, is one of the wanted names.
Charted(r) == r.metric # NULL /\ Val(r.metric) \in Wanted

\* Mutation of Series: the day is not looked at, every position reports the
\* last value of the name.
SeriesAnyDay(rows, name, d) ==
    LET hits == {i \in DOMAIN rows : rows[i].metric = Some(name)}
    IN IF hits = {} THEN NULL ELSE rows[Max(hits)].value

\* wanted[name][d] after the loop over rows: the value of the last row of
\* that name and day, None (NULL) when there is none.
Series(rows, name, d) ==
    LET hits == {i \in DOMAIN rows :
                    /\ rows[i].metric = Some(name)
                    /\ Day(rows[i].recorded_at) = d}
    IN IF hits = {} THEN NULL ELSE rows[Max(hits)].value

\* _chart_series(db, player_id) on the rows in the order the database
\* delivered them.
ChartOf(rows) ==
    IF rows = <<>>
    THEN NoChart
    ELSE LET labels == Labels(rows) IN
         [labels |-> labels,
          ev |-> [i \in DOMAIN labels |-> Series(rows, "exit_velocity", labels[i])],
          la |-> [i \in DOMAIN labels |-> Series(rows, "launch_angle", labels[i])],
          sr |-> [i \in DOMAIN labels |-> Series(rows, "spin_rate", labels[i])]]

\* dates, ev_series, la_series, sr_series = _chart_series(db, pid)
ChartSeries(pid) ==
    /\ q_op = "none"
    /\ LET mine == PlayerRows(pid) IN
       \E rows \in Orderings(mine, ByRecordedAt(mine)) :
        /\ q_op' = "chart"
        /\ q_player' = pid
        /\ q_chart' = ChartOf(rows)
        /\ q_probe' = FALSE
        /\ q_latest' = <<>>
        /\ q_roster' = NoRoster
        /\ UNCHANGED <<schemaVars, metrics, appVars>>

\* _parse_dt_from_db(val): None for a NULL, the datetime itself otherwise.
ParseDtFromDb(val) == val

\* _session_counts_by_player(db), read with session_counts.get(p.id, 0):
\* count(id) per player without the column; otherwise
\* count(distinct date(recorded_at)), which skips the NULL dates.
SessionCounts(probe) ==
    [p \in Players |->
        IF probe
        THEN Cardinality({DayOf(Val(r.recorded_at)) :
                            r \in {x \in PlayerRows(p) : x.recorded_at # NULL}})
        ELSE Cardinality(PlayerRows(p))]

\* last_metric_at of the outer join: max(recorded_at) of the player's rows,
\* NULL without rows; NULL for everybody without the column.
LastMetricAt(probe) ==
    [p \in Players |->
        IF probe THEN SqlMax({r.recorded_at : r \in PlayerRows(p)}) ELSE NULL]

\* (x[1] or datetime(1970, 1, 1)) of the sort key in _group_players.
SortTime(last_dt) == IF last_dt = NULL THEN 0 ELSE Val(last_dt)

\* parsed.sort(key=..., reverse=True): latest time first, then larger id.
GroupOrder(last) ==
    CHOOSE s \in [1 .. Cardinality(Players) -> Players] :
        /\ \A i, j \in DOMAIN s : i # j => s[i] # s[j]
        /\ \A i, j \in DOMAIN s : i < j =>
              \/ SortTime(ParseDtFromDb(last[s[i]])) > SortTime(ParseDtFromDb(last[s[j]]))
              \/ /\ SortTime(ParseDtFromDb(last[s[i]])) = SortTime(ParseDtFromDb(last[s[j]]))
                 /\ s[i] > s[j]

\* instructor_home: the roster of all players with their session counts,
\* in the order _group_players lists them.
InstructorHome ==
    /\ q_op = "none"
    /\ \E inspected \in BOOLEAN :
        LET probe == HasColumn("metrics", "recorded_at", inspected) IN
        /\ q_op' = "roster"
        /\ q_player' = 0
        /\ q_probe' = probe
        /\ q_latest' = <<>>
        /\ q_chart' = NoChart
        /\ q_roster' = [counts |-> SessionCounts(probe),
                        order |-> GroupOrder(LastMetricAt(probe))]
        /\ UNCHANGED <<schemaVars, metrics, appVars>>

\* The handler returns its response and get_db closes the session: the
\* answer is gone, the next request starts from nothing.
Respond ==
    /\ q_op # "none"
    /\ q_op' = "none"
    /\ q_player' = 0
    /\ q_probe' = FALSE
    /\ q_latest' = <<>>
    /\ q_chart' = NoChart
    /\ q_roster' = NoRoster
    /\ UNCHANGED <<schemaVars, metrics, appVars>>

\* ------------------------------------------------------------------------
\* Starting states of the query engine: the service is up on a reconciled
\* schema and the metrics table holds up to MaxRows rows.
\* ------------------------------------------------------------------------
StoredRows ==
    [id : {0}, player_id : Players,
     metric : {Some(n) : n \in StoredNames}, value : {NULL},
     recorded_at : {NULL} \cup {Some(t) : t \in 1 .. MaxTime},
     created_at : {NULL}]

\* Row i carries the value i, so that a reported value names its row.
WithValues(rows) == [i \in DOMAIN rows |-> [rows[i] EXCEPT !.value = Some(i)]]

\* The schema and the processes of a service that is up: the schema is
\* reconciled and process 1 has finished its import.
ServiceUp ==
    /\ columns = [t \in Tables |-> ExpectedSet(t)]
    /\ favTable = TRUE
    /\ mode = "sequential"
    /\ faultsLeft = 0
    /\ phase = [p \in Procs |-> IF p = 1 THEN "serving" ELSE "idle"]
    /\ pc = [p \in Procs |-> IF p = 1 THEN Len(Program) + 1 ELSE 1]
    /\ loc = [p \in Procs |-> [v \in LocalVars |->
                 IF p = 1 /\ v = "metric_cols" THEN ExpectedSet("metrics") ELSE {}]]
    /\ favSeen = [p \in Procs |-> p = 1]
    /\ info_cache = [p \in Procs |-> [t \in Tables |-> {}]]
    /\ logged = [p \in Procs |-> {}]
    /\ blind = [p \in Procs |-> {}]
    /\ ddl = [p \in Procs |-> {}]
    /\ runs = [p \in Procs |-> IF p = 1 THEN 1 ELSE 0]
    /\ colsAtFinish = [p \in Procs |-> {}]
    /\ served = [p \in Procs |-> 0]

InitQuery ==
    /\ dialect \in {"sqlite", "postgresql"}
    /\ ServiceUp
    /\ \E n \in 0 .. MaxRows :
          \E rows \in [1 .. n -> StoredRows] : metrics = WithValues(WithIds(rows))
    /\ QueryIdle
    /\ AppIdle

NextQuery ==
    \/ \E pid \in AskedPlayers : LatestMetrics(pid)
    \/ \E pid \in AskedPlayers : ChartSeries(pid)
    \/ InstructorHome
    \/ Respond

SpecQuery == InitQuery /\ [][NextQuery]_vars

\* ------------------------------------------------------------------------
\* Part B.  Properties of the query engine
\* ------------------------------------------------------------------------
\* C6. Latest-per-metric correctness: when every row of the asked player
\* carries a timestamp and, within each metric name, the timestamps are
\* pairwise distinct, the answer of the latest-metrics query (recorded_at
\* branch) has exactly one row for every name the player has a row for and
\* no other row, that row has the maximum recorded_at among the player's
\* rows of its name, and the rows come in ascending order of name.
C6_LatestPerMetric ==
    LET mine == PlayerRows(q_player)
        answer == Range(q_latest)
    IN
    ( /\ q_op = "latest"
      /\ q_probe
      /\ \A r \in mine : r.recorded_at # NULL
      /\ \A r, s \in mine :
            (r # s /\ r.metric = s.metric) => r.recorded_at # s.recorded_at )
    =>
    /\ answer \subseteq mine
    /\ \A m \in {r.metric : r \in mine} :
          Cardinality({i \in DOMAIN q_latest : q_latest[i].metric = m}) = 1
    /\ \A r \in answer : \A s \in mine :
          s.metric = r.metric => Val(s.recorded_at) <= Val(r.recorded_at)
    /\ \A i, j \in DOMAIN q_latest :
          i < j => Rank(Val(q_latest[i].metric)) < Rank(Val(q_latest[j].metric))

\* The player has two rows of one name, the older row was inserted last
\* (larger id), and the query answered with the newer one.
C6_Witness ==
    /\ q_op = "latest"
    /\ q_probe
    /\ Len(q_latest) = 1
    /\ \E r, s \in PlayerRows(q_player) :
          /\ r.metric = s.metric
          /\ r.recorded_at # NULL /\ s.recorded_at # NULL
          /\ Val(r.recorded_at) > Val(s.recorded_at)
          /\ r.id < s.id
          /\ q_latest[1] = r

\* C7. Tie-break stability: when two rows of the asked player and one
\* metric name share the maximum timestamp of that name, the latest-metrics
\* answer holds exactly one row of that name, and the answer is the only
\* one the query can give on the unchanged data.
C7_TieBreakStable ==
    LET mine == PlayerRows(q_player)
        found == LatestMetricsOf(q_player, q_probe)
        top(m) == SqlMax({r.recorded_at : r \in {x \in mine : x.metric = m}})
        tied == {m \in {r.metric : r \in mine} :
                    \E r, s \in mine :
                        /\ r # s
                        /\ r.metric = m /\ s.metric = m
                        /\ SqlEq(r.recorded_at, top(m))
                        /\ SqlEq(s.recorded_at, top(m))}
    IN
    q_op = "latest" =>
        /\ \A m \in tied :
              Cardinality({i \in DOMAIN q_latest : q_latest[i].metric = m}) = 1
        /\ tied # {} => Orderings(found, ByMetric(found)) = {q_latest}

\* C8. Fallback to identifier order: a metric name all of whose rows for the
\* asked player have a NULL recorded_at has exactly one row in the
\* latest-metrics answer, the one with the largest id, whichever branch of
\* the query ran.
C8_NullFallsBackToId ==
    LET mine == PlayerRows(q_player)
        ofName(m) == {r \in mine : r.metric = m}
        untimed == {m \in {r.metric : r \in mine} :
                       \A r \in ofName(m) : r.recorded_at = NULL}
    IN
    q_op = "latest" =>
        \A m \in untimed :
            /\ Cardinality({i \in DOMAIN q_latest : q_latest[i].metric = m}) = 1
            /\ \A i \in DOMAIN q_latest :
                  q_latest[i].metric = m =>
                      q_latest[i].id = Max({r.id : r \in ofName(m)})

\* C9. Empty player: for a player id no metric row carries (no such player,
\* or a player without rows) the latest-metrics answer is empty and the
\* chart has empty label and value lists; both queries do answer.
C9_EmptyPlayer ==
    LET rowless(pid) == \A i \in DOMAIN metrics : metrics[i].player_id # pid IN
    /\ (q_op = "latest" /\ rowless(q_player)) => q_latest = <<>>
    /\ (q_op = "chart" /\ rowless(q_player)) =>
          /\ q_chart.labels = <<>>
          /\ q_chart.ev = <<>>
          /\ q_chart.la = <<>>
          /\ q_chart.sr = <<>>
    /\ q_op = "none" =>
          \A pid \in AskedPlayers :
              rowless(pid) =>
                  (ENABLED LatestMetrics(pid)) /\ (ENABLED ChartSeries(pid))

\* The chart of a player id that no row carries was asked for while the
\* table holds rows of the other players.
C9_Witness ==
    /\ q_op = "chart"
    /\ q_player \notin Players
    /\ Len(metrics) = MaxRows
    /\ q_chart = NoChart

\* C10. Chart days: the labels of the chart have no duplicates, their days
\* ascend, and a day is a label exactly when the asked player has a row of
\* a charted metric (exit_velocity, launch_angle, spin_rate) on that day.
C10_ChartDays ==
    LET mine == PlayerRows(q_player)
        labels == q_chart.labels
    IN
    q_op = "chart" =>
        /\ \A i, j \in DOMAIN labels : i # j => labels[i] # labels[j]
        /\ \A i, j \in DOMAIN labels :
              (i < j /\ labels[i].kind = "date" /\ labels[j].kind = "date")
                  => labels[i].day < labels[j].day
        /\ \A d \in Range(labels) \cup {Day(r.recorded_at) : r \in mine} :
              d.kind = "date" =>
                 (d \in Range(labels) <=>
                     \E r \in mine : Charted(r) /\ Day(r.recorded_at) = d)

\* C11. Same-day winner: when several rows of the asked player and one
\* charted metric fall on the same calendar day, the value the chart
\* reports for that day is that of the latest of them, by timestamp and,
\* for equal timestamps, by the larger id.
C11_SameDayWinner ==
    LET mine == PlayerRows(q_player)
        labels == q_chart.labels
        series(n) == IF n = "exit_velocity" THEN q_chart.ev
                     ELSE IF n = "launch_angle" THEN q_chart.la
                     ELSE q_chart.sr
        hits(n, d) == {r \in mine : r.metric = Some(n) /\ Day(r.recorded_at) = d}
        later(r, s) == \/ Val(s.recorded_at) < Val(r.recorded_at)
                       \/ s.recorded_at = r.recorded_at /\ s.id <= r.id
    IN
    q_op = "chart" =>
        \A i \in DOMAIN labels : \A n \in Wanted :
            (labels[i].kind = "date" /\ hits(n, labels[i]) # {}) =>
                \E r \in hits(n, labels[i]) :
                    /\ \A s \in hits(n, labels[i]) : later(r, s)
                    /\ series(n)[i] = r.value

\* C12. Series alignment: the three value lists of the chart are as long as
\* the label list, and position i of each holds the value of one of the
\* asked player's rows of that metric on day labels[i], or the absent marker
\* (NULL, which is no number) when the player has no such row.
C12_SeriesAligned ==
    LET mine == PlayerRows(q_player)
        labels == q_chart.labels
        series(n) == IF n = "exit_velocity" THEN q_chart.ev
                     ELSE IF n = "launch_angle" THEN q_chart.la
                     ELSE q_chart.sr
        hits(n, d) == {r \in mine : r.metric = Some(n) /\ Day(r.recorded_at) = d}
    IN
    q_op = "chart" =>
        \A n \in Wanted :
            /\ Len(series(n)) = Len(labels)
            /\ \A i \in DOMAIN labels :
                  IF hits(n, labels[i]) = {}
                  THEN series(n)[i] = NULL
                  ELSE series(n)[i] \in {r.value : r \in hits(n, labels[i])}

\* The chart has two days; exit_velocity was recorded on the first only and
\* launch_angle on the second only, so each list has a value and a gap.
C12_Witness ==
    /\ q_op = "chart"
    /\ Len(q_chart.labels) = 2
    /\ q_chart.ev[1] # NULL /\ q_chart.ev[2] = NULL
    /\ q_chart.la[1] = NULL /\ q_chart.la[2] # NULL

\* ------------------------------------------------------------------------
\* Part C.  _day: the date label of a stored recorded_at
\* ------------------------------------------------------------------------
\* Text is a sequence of one-character strings.
Digits == <<"0", "1", "2", "3", "4", "5", "6", "7", "8", "9">>

Pad2(n) == <<Digits[(n \div 10) + 1], Digits[(n % 10) + 1]>>

Pad4(n) == Pad2(n \div 100) \o Pad2(n % 100)

\* date.isoformat()
IsoDate(ymd) == Pad4(ymd[1]) \o <<"-">> \o Pad2(ymd[2]) \o <<"-">> \o Pad2(ymd[3])

\* str.strip(): leading and trailing blanks removed.
RECURSIVE Strip(_)
Strip(s) ==
    IF s = <<>> THEN s
    ELSE IF Head(s) = " " THEN Strip(Tail(s))
    ELSE IF s[Len(s)] = " " THEN Strip(SubSeq(s, 1, Len(s) - 1))
    ELSE s

\* str(v) of a value that is no datetime: the text itself, "None" for None.
Str(v) == IF v.kind = "None" THEN <<"N", "o", "n", "e">> ELSE v.text

\* _day(v)
DayText(v) ==
    IF v.kind = "datetime" THEN IsoDate(v.ymd)
    ELSE LET s == Strip(Str(v)) IN
         IF Len(s) >= 10 THEN SubSeq(s, 1, 10) ELSE s

\* The calendar dates the stored values are taken from.
SomeDates == {<<y, m, d>> : y \in {2024, 2025}, m \in {1, 6, 12}, d \in {5, 28}}

ClockSpace == <<" ", "1", "2", ":", "3", "4">>

ClockT == <<"T", "0", "9", ":", "0", "0", ":", "0", "0">>

\* Strings that hold no ISO date in their first ten characters.
FreeTexts ==
    { <<"0", "1", "/", "0", "5", "/", "2", "0", "2", "5", " ", "9", "a", "m">>,
      <<"l", "a", "s", "t", " ", "t", "u", "e", "s", "d", "a", "y">>,
      <<"2", "0", "2", "5", "-", "1", "-", "5", " ", "0", "9", ":", "0", "0", ":", "0", "0">> }

\* Strings of fewer than ten characters, blank ones included.
ShortTexts ==
    { <<>>, <<" ">>, <<"n", "/", "a">>, <<"2", "0", "2", "5", "-", "0", "1">>, <<"1", "/", "5", "/", "2", "5">> }

\* What a recorded_at read from the database can be: a datetime (DateTime
\* column), a string (the TEXT column the reconciler adds) or None.
StoredForms ==
    {[kind |-> "datetime", ymd |-> d, text |-> <<>>] : d \in SomeDates}
    \cup {[kind |-> "str", ymd |-> <<>>, text |-> t] :
            t \in {IsoDate(d) : d \in SomeDates}
                  \cup {IsoDate(d) \o ClockSpace : d \in SomeDates}
                  \cup {IsoDate(d) \o ClockT : d \in SomeDates}
                  \cup {<<" ">> \o IsoDate(d) \o <<" ">> : d \in SomeDates}
                  \cup FreeTexts \cup ShortTexts}
    \cup {[kind |-> "None", ymd |-> <<>>, text |-> <<>>]}

\* labels.append(_day(r.recorded_at)) for one row.
DayLabel ==
    /\ day_out = {}
    /\ day_out' = Some(DayText(day_in))
    /\ UNCHANGED <<schemaVars, metrics, queryVars, day_in, tableVars,
                   clientVars>>

InitDay ==
    /\ dialect = "postgresql"
    /\ ServiceUp
    /\ metrics = <<>>
    /\ QueryIdle
    /\ day_in \in StoredForms
    /\ day_out = {}
    /\ TablesIdle
    /\ ClientsIdle

NextDay == DayLabel

SpecDay == InitDay /\ [][NextDay]_vars

\* A canonical YYYY-MM-DD label: four digits, a dash, two digits, a dash,
\* two digits.
C13_IsCanonical ==
    \A l \in day_out :
        /\ Len(l) = 10
        /\ l[5] = "-" /\ l[8] = "-"
        /\ \A i \in {1, 2, 3, 4, 6, 7, 9, 10} : l[i] \in Range(Digits)

\* C13. Date labels: the label _day produces is a canonical, non-blank
\* YYYY-MM-DD string for every stored representation of recorded_at
\* (datetime, date-only string, longer datetime string, free text, short
\* string, NULL).
C13_CanonicalLabels == day_out # {} => C13_IsCanonical

\* C14. Rows without a usable timestamp are not dropped from the roster: a
\* player who has a metric row with no timestamp gets a session count that
\* includes it (larger than the number of days of the timed rows), and a
\* player whose last metric time is missing is listed after every player
\* whose last metric time parses.
C14_UntimedRowsCounted ==
    LET timedDays(p) == {DayOf(Val(r.recorded_at)) :
                            r \in {x \in PlayerRows(p) : x.recorded_at # NULL}}
        untimed(p) == \E r \in PlayerRows(p) : r.recorded_at = NULL
        last(p) == SqlMax({r.recorded_at : r \in PlayerRows(p)})
        place(p) == CHOOSE i \in DOMAIN q_roster.order : q_roster.order[i] = p
    IN
    q_op = "roster" =>
        /\ \A p \in Players :
              untimed(p) => q_roster.counts[p] > Cardinality(timedDays(p))
        /\ \A p, q \in Players :
              (q_probe /\ PlayerRows(p) # {} /\ last(p) = NULL /\ last(q) # NULL)
                  => place(q) < place(p)

\* ------------------------------------------------------------------------
\* Part D.  The write handlers
\* ------------------------------------------------------------------------
\* str.upper() on the characters the codes are made of.
Upper(ch) ==
    IF ch = "a" THEN "A" ELSE IF ch = "b" THEN "B" ELSE IF ch = "x" THEN "X" ELSE ch

\* The characters [A-Z0-9] that appear in codes.
AlphaNum == {"A", "B", "C", "X", "Y", "7"}

\* re.sub(r"[^A-Z0-9]", "", text) on upper-cased text.
RECURSIVE KeepAlphaNum(_)
KeepAlphaNum(text) ==
    IF text = <<>> THEN <<>>
    ELSE IF Head(text) \in AlphaNum
         THEN <<Head(text)>> \o KeepAlphaNum(Tail(text))
         ELSE KeepAlphaNum(Tail(text))

\* normalize_code(s)
NormalizeCode(text) ==
    KeepAlphaNum([i \in DOMAIN Strip(text) |-> Upper(Strip(text)[i])])

PlayerIds == {players[i].id : i \in DOMAIN players}

PlayerCodes == {players[i].login_code : i \in DOMAIN players}

\* bool(request.session.get("instructor_id"))
IsInstructor(c) == session[c].instructor_id # NULL

\* The client may start a request.
MaySend(c) == inflight[c].op = "none" /\ sent[c] < MaxRequests

\* The handler returns without touching the database.
Reply(c, op, pid, outcome) ==
    /\ resp' = [resp EXCEPT ![c] = [op |-> op, pid |-> pid, iid |-> 0,
                                    outcome |-> outcome, value |-> 0]]
    /\ sent' = [sent EXCEPT ![c] = @ + 1]

\* add_metric up to db.get(Player, player_id): the session check and the
\* player lookup.
AddMetricBegin(c, pid) ==
    /\ MaySend(c)
    /\ IF ~IsInstructor(c)
       THEN Reply(c, "add_metric", pid, "unauthorized") /\ UNCHANGED inflight
       ELSE IF pid \notin PlayerIds
       THEN Reply(c, "add_metric", pid, "player_not_found") /\ UNCHANGED inflight
       ELSE /\ inflight' = [inflight EXCEPT ![c] =
                   [op |-> "add_metric", pid |-> pid,
                    iid |-> Val(session[c].instructor_id), hit |-> TRUE,
                    value |-> 10 * c + sent[c] + 1]]
            /\ sent' = [sent EXCEPT ![c] = @ + 1]
            /\ resp' = [resp EXCEPT ![c] = NoResp]
    /\ UNCHANGED <<schemaVars, metrics, queryVars, dayVars, tableVars, session>>

\* Mutation of AddMetricCommit: the row is written over the newest row of
\* the table instead of being added to it.
AddMetricCommitOverwrite(c) ==
    /\ inflight[c].op = "add_metric"
    /\ metrics' = [metrics EXCEPT ![Len(metrics)] =
           [id |-> Len(metrics), player_id |-> inflight[c].pid,
            metric |-> Some("exit_velocity"), value |-> Some(inflight[c].value),
            recorded_at |-> Some(Now), created_at |-> NULL]]
    /\ resp' = [resp EXCEPT ![c] =
           [op |-> "add_metric", pid |-> inflight[c].pid, iid |-> inflight[c].iid,
            outcome |-> "ok", value |-> inflight[c].value]]
    /\ inflight' = [inflight EXCEPT ![c] = NoReq]
    /\ UNCHANGED <<schemaVars, queryVars, dayVars, tableVars, session, sent>>

\* add_metric from Metric(...) to the response: db.add(m); db.commit().
AddMetricCommit(c) ==
    /\ inflight[c].op = "add_metric"
    /\ metrics' = Append(metrics,
           [id |-> Len(metrics) + 1, player_id |-> inflight[c].pid,
            metric |-> Some("exit_velocity"), value |-> Some(inflight[c].value),
            recorded_at |-> Some(Now), created_at |-> NULL])
    /\ resp' = [resp EXCEPT ![c] =
           [op |-> "add_metric", pid |-> inflight[c].pid, iid |-> inflight[c].iid,
            outcome |-> "ok", value |-> inflight[c].value]]
    /\ inflight' = [inflight EXCEPT ![c] = NoReq]
    /\ UNCHANGED <<schemaVars, queryVars, dayVars, tableVars, session, sent>>

\* Mutation of AddNote: the session is not checked.
AddNoteNoAuth(c, pid) ==
    /\ MaySend(c)
    /\ IF fkEnforced /\ pid \notin PlayerIds
       THEN Reply(c, "add_note", pid, "error") /\ UNCHANGED notes
       ELSE /\ notes' = Append(notes,
                   [player_id |-> pid,
                    instructor_id |-> IF IsInstructor(c)
                                      THEN Val(session[c].instructor_id) ELSE 0])
            /\ Reply(c, "add_note", pid, "ok")
    /\ UNCHANGED <<schemaVars, metrics, queryVars, dayVars, players, instructors,
                   drill_assignments, favorites, codeUnique, fkEnforced,
                   env_code, session, inflight>>

\* add_note: a Note row for the path's player_id; a FOREIGN KEY the database
\* enforces rejects the commit when there is no such player.
AddNote(c, pid) ==
    /\ MaySend(c)
    /\ IF ~IsInstructor(c)
       THEN Reply(c, "add_note", pid, "unauthorized") /\ UNCHANGED notes
       ELSE IF fkEnforced /\ pid \notin PlayerIds
       THEN Reply(c, "add_note", pid, "error") /\ UNCHANGED notes
       ELSE /\ notes' = Append(notes,
                   [player_id |-> pid, instructor_id |-> Val(session[c].instructor_id)])
            /\ Reply(c, "add_note", pid, "ok")
    /\ UNCHANGED <<schemaVars, metrics, queryVars, dayVars, players, instructors,
                   drill_assignments, favorites, codeUnique, fkEnforced,
                   env_code, session, inflight>>

\* assign_drill: a DrillAssignment row for the path's player_id and the
\* form's drill_id; known says whether that drill exists.
AssignDrill(c, pid, known) ==
    /\ MaySend(c)
    /\ IF ~IsInstructor(c)
       THEN Reply(c, "assign_drill", pid, "unauthorized")
            /\ UNCHANGED drill_assignments
       ELSE IF fkEnforced /\ (pid \notin PlayerIds \/ ~known)
       THEN Reply(c, "assign_drill", pid, "error") /\ UNCHANGED drill_assignments
       ELSE /\ drill_assignments' = Append(drill_assignments,
                   [player_id |-> pid, instructor_id |-> Val(session[c].instructor_id)])
            /\ Reply(c, "assign_drill", pid, "ok")
    /\ UNCHANGED <<schemaVars, metrics, queryVars, dayVars, players, instructors,
                   notes, favorites, codeUnique, fkEnforced, env_code, session,
                   inflight>>

\* toggle_favorite up to the SELECT 1 FROM favorites: the session check and
\* the read of the pair.
ToggleBegin(c, pid) ==
    /\ MaySend(c)
    /\ IF ~IsInstructor(c)
       THEN Reply(c, "toggle_favorite", pid, "unauthorized") /\ UNCHANGED inflight
       ELSE /\ inflight' = [inflight EXCEPT ![c] =
                   [op |-> "toggle_favorite", pid |-> pid,
                    iid |-> Val(session[c].instructor_id),
                    hit |-> <<Val(session[c].instructor_id), pid>> \in Range(favorites),
                    value |-> 0]]
            /\ sent' = [sent EXCEPT ![c] = @ + 1]
            /\ resp' = [resp EXCEPT ![c] = NoResp]
    /\ UNCHANGED <<schemaVars, metrics, queryVars, dayVars, tableVars, session>>

\* DELETE FROM favorites WHERE instructor_id = :iid AND player_id = :pid
RECURSIVE Without(_, _)
Without(rows, pair) ==
    IF rows = <<>> THEN <<>>
    ELSE IF Head(rows) = pair THEN Without(Tail(rows), pair)
    ELSE <<Head(rows)>> \o Without(Tail(rows), pair)

\* toggle_favorite after the SELECT: DELETE the pair when it was found,
\* INSERT it otherwise; PRIMARY KEY (instructor_id, player_id) rejects the
\* INSERT of a pair the table holds by now, and the handler does not catch
\* the IntegrityError.
ToggleCommit(c) ==
    LET pair == <<inflight[c].iid, inflight[c].pid>>
        clash == ~inflight[c].hit /\ pair \in Range(favorites)
    IN
    /\ inflight[c].op = "toggle_favorite"
    /\ favorites' = IF inflight[c].hit THEN Without(favorites, pair)
                    ELSE IF clash THEN favorites
                    ELSE Append(favorites, pair)
    /\ resp' = [resp EXCEPT ![c] =
           [op |-> "toggle_favorite", pid |-> inflight[c].pid,
            iid |-> inflight[c].iid,
            outcome |-> IF clash THEN "error" ELSE "ok", value |-> 0]]
    /\ inflight' = [inflight EXCEPT ![c] = NoReq]
    /\ UNCHANGED <<schemaVars, metrics, queryVars, dayVars, players, instructors,
                   notes, drill_assignments, codeUnique, fkEnforced, env_code,
                   session, sent>>

\* The codes _generate_unique_code draws from (two characters of its
\* alphabet stand for its six).
GenCodes == {<<"X", "7">>, <<"Y", "7">>}

\* _generate_unique_code(db): a random code no player has; after 20 draws
\* that all hit a stored code, any random code.
GeneratedCodes ==
    {g \in GenCodes : NormalizeCode(g) \notin PlayerCodes}
    \cup (IF \E g \in GenCodes : NormalizeCode(g) \in PlayerCodes
          THEN GenCodes ELSE {})

\* The login_code values a create_player form carries.
RawCodes ==
    {<<"A", "B">>, <<"a", "b">>, <<" ", "a", "-", "B">>, <<"-">>, <<"C", "7">>}

\* create_player: named says whether the form has a non-blank name, code is
\* the form's login_code (NULL when absent).  The UNIQUE constraint on
\* players.login_code, where the table has it, rejects a stored code.
CreatePlayer(c, named, code) ==
    /\ MaySend(c)
    /\ IF ~IsInstructor(c)
       THEN Reply(c, "create_player", 0, "unauthorized") /\ UNCHANGED players
       ELSE IF ~named
       THEN Reply(c, "create_player", 0, "name_required") /\ UNCHANGED players
       ELSE \E raw_code \in (IF code # NULL /\ Strip(Val(code)) # <<>>
                             THEN {Strip(Val(code))} ELSE GeneratedCodes) :
              LET norm_code == NormalizeCode(raw_code) IN
              IF codeUnique /\ norm_code \in PlayerCodes
              THEN Reply(c, "create_player", 0, "error") /\ UNCHANGED players
              ELSE /\ players' = Append(players,
                          [id |-> Len(players) + 1, login_code |-> norm_code])
                   /\ Reply(c, "create_player", Len(players) + 1, "ok")
    /\ UNCHANGED <<schemaVars, metrics, queryVars, dayVars, instructors, notes,
                   drill_assignments, favorites, codeUnique, fkEnforced,
                   env_code, session, inflight>>

\* ------------------------------------------------------------------------
\* Starting states of the write handlers: the service is up with one
\* player, one instructor and one metric row; each client holds a session
\* that is anonymous, a player's or an instructor's.
\* ------------------------------------------------------------------------
PlayerSession(pid) == [player_id |-> Some(pid), instructor_id |-> NULL]

InstructorSession(iid) == [player_id |-> NULL, instructor_id |-> Some(iid)]

SeededTables ==
    /\ players = <<[id |-> 1, login_code |-> <<"A", "B">>]>>
    /\ instructors = <<[id |-> 1, login_code |-> <<"C", "7">>]>>
    /\ notes = <<>>
    /\ drill_assignments = <<>>
    /\ favorites = <<>>
    /\ fkEnforced \in (IF dialect = "postgresql" THEN {TRUE} ELSE BOOLEAN)
    /\ env_code = <<>>

InitWrites ==
    /\ dialect \in {"sqlite", "postgresql"}
    /\ ServiceUp
    /\ metrics = <<[id |-> 1, player_id |-> 1, metric |-> Some("exit_velocity"),
                   value |-> Some(1), recorded_at |-> Some(1),
                   created_at |-> NULL]>>
    /\ QueryIdle
    /\ DayIdle
    /\ SeededTables
    /\ codeUnique = TRUE
    /\ session \in [Clients -> {Anonymous, PlayerSession(1), InstructorSession(1)}]
    /\ inflight = [c \in Clients |-> NoReq]
    /\ resp = [c \in Clients |-> NoResp]
    /\ sent = [c \in Clients |-> 0]

\* The player ids a request path may carry: the seeded player and an id
\* that is no player's until a second player is created.
PathIds == {1, 2}

NextWrites ==
    \E c \in Clients :
        \/ \E named \in BOOLEAN : CreatePlayer(c, named, NULL)
        \/ \E pid \in PathIds : AddMetricBegin(c, pid)
        \/ AddMetricCommit(c)
        \/ \E pid \in PathIds : AddNote(c, pid)
        \/ \E pid \in PathIds, known \in BOOLEAN : AssignDrill(c, pid, known)
        \/ \E pid \in PathIds : ToggleBegin(c, pid)
        \/ ToggleCommit(c)

SpecWrites == InitWrites /\ [][NextWrites]_vars

\* ------------------------------------------------------------------------
\* Part D.  Properties of the write handlers
\* ------------------------------------------------------------------------
\* The value a response or a request in flight of client c can carry.
C15_ValuesOf(c) == {10 * c + n : n \in 1 .. sent[c]}

C15_EveryRequestOneRow ==
    /\ \A c \in Clients :
          (IsInstructor(c) /\ resp[c].op = "add_metric"
                /\ resp[c].pid = players[1].id)
          => /\ resp[c].outcome = "ok"
             /\ \E i \in DOMAIN metrics :
                   /\ metrics[i].value = Some(resp[c].value)
                   /\ metrics[i].player_id = resp[c].pid
    /\ \A i, j \in DOMAIN metrics :
          i # j => /\ metrics[i].value # metrics[j].value
                   /\ metrics[i].id # metrics[j].id
    /\ \A i \in DOMAIN metrics :
          i > 1 => \E c \in Clients :
                      /\ Val(metrics[i].value) \in C15_ValuesOf(c)
                      /\ inflight[c].value # Val(metrics[i].value)

C15_RowsStay ==
    \A i \in DOMAIN metrics : i \in DOMAIN metrics' /\ metrics'[i] = metrics[i]

\* C15. Metrics are append-only under concurrency: whatever the
\* interleaving, an authorised add_metric request for the existing player
\* returns ok and leaves exactly one row of its own (its value, its
\* player), no two rows share a value or an id, every new row belongs to
\* a request that has committed, and no step changes or removes a row the
\* table already held.
C15_AppendOnly == [](C15_EveryRequestOneRow) /\ [][C15_RowsStay]_vars

\* Both clients' add_metric requests for the same player have returned ok
\* and the table holds the seeded row and their two rows, the second
\* client's committed first.
C15_Witness ==
    /\ \A c \in Clients :
          resp[c].op = "add_metric" /\ resp[c].outcome = "ok"
             /\ resp[c].pid = players[1].id
    /\ Len(metrics) = 3
    /\ metrics[2].value = Some(resp[2].value)
    /\ metrics[3].value = Some(resp[1].value)

\* C16. Favourite pairs under a race: the favorites table holds each
\* (instructor_id, player_id) pair at most once in every reachable state,
\* and every toggle_favorite request of an instructor session completes
\* with ok, also when two requests for the same pair both read before
\* either writes.
C16_ToggleRace ==
    /\ \A i, j \in DOMAIN favorites : i # j => favorites[i] # favorites[j]
    /\ \A c \in Clients :
          (IsInstructor(c) /\ resp[c].op = "toggle_favorite")
              => resp[c].outcome = "ok"

\* C17. Ownership: in every state reached by create_player, add_metric,
\* add_note, assign_drill and toggle_favorite requests, every Metric, Note,
\* DrillAssignment and favourite row has the id of an existing player as
\* its player_id.
C17_Ownership ==
    /\ \A i \in DOMAIN metrics : metrics[i].player_id \in PlayerIds
    /\ \A i \in DOMAIN notes : notes[i].player_id \in PlayerIds
    /\ \A i \in DOMAIN drill_assignments :
          drill_assignments[i].player_id \in PlayerIds
    /\ \A i \in DOMAIN favorites : favorites[i][2] \in PlayerIds

\* ------------------------------------------------------------------------
\* create_player with every kind of login_code, on a players table with or
\* without the UNIQUE constraint on login_code (the reconciler adds the
\* column to an older table as plain TEXT).
\* ------------------------------------------------------------------------
InitCodes ==
    /\ dialect \in {"sqlite", "postgresql"}
    /\ ServiceUp
    /\ metrics = <<>>
    /\ QueryIdle
    /\ DayIdle
    /\ SeededTables
    /\ codeUnique \in BOOLEAN
    /\ session = [c \in Clients |-> InstructorSession(1)]
    /\ inflight = [c \in Clients |-> NoReq]
    /\ resp = [c \in Clients |-> NoResp]
    /\ sent = [c \in Clients |-> 0]

NextCodes ==
    \E c \in Clients, named \in BOOLEAN :
        \E code \in {NULL} \cup {Some(raw) : raw \in RawCodes} :
            CreatePlayer(c, named, code)

SpecCodes == InitCodes /\ [][NextCodes]_vars

\* C18. Player login codes: after any sequence of create_player requests,
\* with a supplied or a generated code, every stored Player.login_code
\* equals its own normalization, is not empty, and no two players share a
\* login_code.
C18_CodesUniqueNormalized ==
    /\ \A i \in DOMAIN players :
          /\ players[i].login_code = NormalizeCode(players[i].login_code)
          /\ players[i].login_code # <<>>
    /\ \A i, j \in DOMAIN players :
          i # j => players[i].login_code # players[j].login_code

C19_NoInstructor(c) == session[c].instructor_id = NULL

C19_Refused ==
    \A c \in Clients :
        C19_NoInstructor(c) =>
            /\ inflight[c].op = "none"
            /\ resp[c].op # "none" => resp[c].outcome = "unauthorized"

C19_NothingWritten ==
    \A c \in Clients :
        (C19_NoInstructor(c) /\ sent'[c] # sent[c]) =>
            UNCHANGED <<players, metrics, notes, drill_assignments, favorites>>

\* C19. Writes need an instructor session: a create_player, add_metric,
\* add_note, assign_drill or toggle_favorite request of a session without
\* instructor_id (anonymous or a player's) is answered with the
\* unauthorized outcome, never gets past the session check, and its step
\* leaves players, metrics, notes, drill_assignments and favorites as they
\* were.
C19_WritesNeedInstructor == [](C19_Refused) /\ [][C19_NothingWritten]_vars

\* An anonymous client was refused create_player and a client with a
\* player's session was refused toggle_favorite; no table has changed.
C19_Witness ==
    /\ session[1] = Anonymous
    /\ resp[1].op = "create_player" /\ resp[1].outcome = "unauthorized"
    /\ session[2].player_id # NULL
    /\ resp[2].op = "toggle_favorite" /\ resp[2].outcome = "unauthorized"
    /\ Len(players) = 1 /\ favorites = <<>>

\* ------------------------------------------------------------------------
\* Part E.  Sessions: login_player, login_instructor, logout
\* ------------------------------------------------------------------------
\* hash_code(raw): a hex digest of the normalised code; it differs from
\* every normalised code.
HashCode(raw) == <<"#">> \o NormalizeCode(raw)

\* The rows of a table (a sequence of rows) whose login_code is code.
WithCode(table, code) == {i \in DOMAIN table : table[i].login_code = code}

\* _login_lookup(db, model, raw_code): row is {} for None and {row index}
\* for the row found; raised says that scalar_one_or_none() raised
\* MultipleResultsFound, which the function does not catch.
LoginLookup(table, raw) ==
    LET plain == WithCode(table, NormalizeCode(raw))
        hashed == WithCode(table, HashCode(raw))
    IN IF Cardinality(plain) > 1 THEN [raised |-> TRUE, row |-> {}]
       ELSE IF plain # {} THEN [raised |-> FALSE, row |-> plain]
       ELSE IF Cardinality(hashed) > 1 THEN [raised |-> TRUE, row |-> {}]
       ELSE [raised |-> FALSE, row |-> hashed]

\* The response of a handler that keeps no request in flight.
Answer(c, op, id, outcome) ==
    resp' = [resp EXCEPT ![c] = [op |-> op, pid |-> id, iid |-> 0,
                                 outcome |-> outcome, value |-> 0]]

\* Mutation of LoginPlayer: instructor_id is not removed from the session.
LoginPlayerKeepsInstructor(c, code) ==
    LET found == LoginLookup(players, code) IN
    /\ inflight[c].op = "none"
    /\ IF found.raised
       THEN Answer(c, "login_player", 0, "error") /\ UNCHANGED session
       ELSE IF found.row = {}
       THEN Answer(c, "login_player", 0, "invalid") /\ UNCHANGED session
       ELSE /\ session' = [session EXCEPT ![c].player_id = Some(players[Val(found.row)].id)]
            /\ Answer(c, "login_player", players[Val(found.row)].id, "ok")
    /\ UNCHANGED <<schemaVars, metrics, queryVars, dayVars, tableVars,
                   inflight, sent>>

\* login_player
LoginPlayer(c, code) ==
    LET found == LoginLookup(players, code) IN
    /\ inflight[c].op = "none"
    /\ IF found.raised
       THEN Answer(c, "login_player", 0, "error") /\ UNCHANGED session
       ELSE IF found.row = {}
       THEN Answer(c, "login_player", 0, "invalid") /\ UNCHANGED session
       ELSE /\ session' = [session EXCEPT ![c] =
                   [player_id |-> Some(players[Val(found.row)].id),
                    instructor_id |-> NULL]]
            /\ Answer(c, "login_player", players[Val(found.row)].id, "ok")
    /\ UNCHANGED <<schemaVars, metrics, queryVars, dayVars, tableVars,
                   inflight, sent>>

\* The env-var fallback of login_instructor applies to this code.
IsDefaultCode(code) ==
    env_code # <<>> /\ NormalizeCode(code) = NormalizeCode(env_code)

\* login_instructor: the table lookup, then the INSTRUCTOR_DEFAULT_CODE
\* fallback, which takes the only instructor (scalar_one_or_none() raises
\* when there are several), creates one when there is none and gives it
\* the default code when it has no code.
LoginInstructor(c, code) ==
    LET found == LoginLookup(instructors, code)
        signIn(iid) ==
            /\ session' = [session EXCEPT ![c] =
                   [player_id |-> NULL, instructor_id |-> Some(iid)]]
            /\ Answer(c, "login_instructor", iid, "ok")
    IN
    /\ inflight[c].op = "none"
    /\ IF found.raised
       THEN Answer(c, "login_instructor", 0, "error")
            /\ UNCHANGED <<session, instructors>>
       ELSE IF found.row # {}
       THEN signIn(instructors[Val(found.row)].id) /\ UNCHANGED instructors
       ELSE IF ~IsDefaultCode(code)
       THEN Answer(c, "login_instructor", 0, "invalid")
            /\ UNCHANGED <<session, instructors>>
       ELSE IF Len(instructors) > 1
       THEN Answer(c, "login_instructor", 0, "error")
            /\ UNCHANGED <<session, instructors>>
       ELSE IF instructors = <<>>
       THEN /\ instructors' = <<[id |-> 1, login_code |-> NormalizeCode(env_code)]>>
            /\ signIn(1)
       ELSE /\ instructors' =
                  IF instructors[1].login_code = <<>>
                  THEN [instructors EXCEPT ![1].login_code = NormalizeCode(env_code)]
                  ELSE instructors
            /\ signIn(instructors[1].id)
    /\ UNCHANGED <<schemaVars, metrics, queryVars, dayVars, players, notes,
                   drill_assignments, favorites, codeUnique, fkEnforced,
                   env_code, inflight, sent>>

\* logout
Logout(c) ==
    /\ inflight[c].op = "none"
    /\ session' = [session EXCEPT ![c] = Anonymous]
    /\ Answer(c, "logout", 0, "ok")
    /\ UNCHANGED <<schemaVars, metrics, queryVars, dayVars, tableVars,
                   inflight, sent>>

\* The codes a login form carries.
LoginCodes ==
    {<<"A", "B">>, <<" ", "a", "-", "B">>, <<"C", "7">>, <<"X", "7">>, <<"-">>}

\* The instructors tables the service may run on: empty, one instructor
\* with a plain, a hashed or an empty code, two instructors.
InstructorTables ==
    { <<>>,
      <<[id |-> 1, login_code |-> <<"C", "7">>]>>,
      <<[id |-> 1, login_code |-> HashCode(<<"C", "7">>)]>>,
      <<[id |-> 1, login_code |-> <<>>]>>,
      <<[id |-> 1, login_code |-> <<"C", "7">>],
        [id |-> 2, login_code |-> <<"Y", "7">>]>> }

InitSession ==
    /\ dialect \in {"sqlite", "postgresql"}
    /\ ServiceUp
    /\ metrics = <<>>
    /\ QueryIdle
    /\ DayIdle
    /\ players = <<[id |-> 1, login_code |-> <<"A", "B">>]>>
    /\ instructors \in InstructorTables
    /\ notes = <<>>
    /\ drill_assignments = <<>>
    /\ favorites = <<>>
    /\ codeUnique = TRUE
    /\ fkEnforced = (dialect = "postgresql")
    /\ env_code \in {<<>>, <<"x", "-", "7">>}
    /\ ClientsIdle

NextSession ==
    \E c \in Clients :
        \/ \E code \in LoginCodes : LoginPlayer(c, code)
        \/ \E code \in LoginCodes : LoginInstructor(c, code)
        \/ Logout(c)

SpecSession == InitSession /\ [][NextSession]_vars

C20_OneRole ==
    \A c \in Clients :
        /\ ~(session[c].player_id # NULL /\ session[c].instructor_id # NULL)
        /\ (resp[c].op = "login_player" /\ resp[c].outcome = "ok") =>
              session[c] = [player_id |-> Some(resp[c].pid), instructor_id |-> NULL]
        /\ (resp[c].op = "login_instructor" /\ resp[c].outcome = "ok") =>
              session[c] = [player_id |-> NULL, instructor_id |-> Some(resp[c].pid)]
        /\ resp[c].op = "logout" => session[c] = Anonymous

C20_FailureKeepsSession ==
    \A c \in Clients :
        resp'[c].outcome \in {"invalid", "error"} => session'[c] = session[c]

\* C20. Session roles are mutually exclusive: after any sequence of
\* login_player, login_instructor and logout requests a session never holds
\* both player_id and instructor_id; a successful login leaves exactly its
\* own role's id in the session, a failed login changes neither id, and
\* logout removes both.
C20_RolesExclusive == [](C20_OneRole) /\ [][C20_FailureKeepsSession]_vars

\* A client that was signed in as an instructor has signed in as a player
\* since, and the other client's login failed while it was signed in.
C20_Witness ==
    /\ resp[1].op = "login_player" /\ resp[1].outcome = "ok"
    /\ session[1].player_id # NULL
    /\ \E i \in DOMAIN instructors : instructors[i].login_code = <<"X", "7">>
    /\ resp[2].outcome = "invalid"
    /\ session[2].instructor_id # NULL

C21_DefaultLoginStep ==
    \A c \in Clients : \A code \in LoginCodes :
        ( /\ IsDefaultCode(code)
          /\ LoginLookup(instructors, code) = [raised |-> FALSE, row |-> {}]
          /\ LoginInstructor(c, code) )
        =>
        /\ resp'[c].op = "login_instructor" /\ resp'[c].outcome = "ok"
        /\ \E i \in DOMAIN instructors' :
              /\ \A j \in DOMAIN instructors' :
                    instructors'[i].id <= instructors'[j].id
              /\ session'[c].instructor_id = Some(instructors'[i].id)
        /\ Len(instructors') = IF instructors = <<>> THEN 1 ELSE Len(instructors)

\* C21. Default-code instructor login: a login_instructor request whose
\* code normalizes to the normalized INSTRUCTOR_DEFAULT_CODE and matches no
\* stored instructor code succeeds for zero, one or several stored
\* instructors: it does not raise, it signs the session in as the
\* lowest-id instructor, and it adds a row only to an empty table.
C21_DefaultLogin == [][C21_DefaultLoginStep]_vars

====
